---- MODULE Spec2Model ----
(***************************************************************************)
(* Model of src/main.py (forge-multibaas): the pipeline that registers a   *)
(* compiled contract and an on-chain address with the MultiBaas service    *)
(* and links the two.                                                      *)
(*                                                                         *)
(* A Python string is a tuple of one-character strings, so that lower(),   *)
(* the decimal suffix arithmetic and f-string concatenation are computed   *)
(* and not assumed.  An Optional value is None (<<>>) or Some(x) (<<x>>).  *)
(* One run of upload_and_link_contract is a sequence of steps, one per     *)
(* remote call; every remote call may fail with a non-404 status.          *)
(***************************************************************************)
EXTENDS Integers, Sequences, FiniteSets, TLC

-----------------------------------------------------------------------------
(* Bounds of the model *)

MaxRuns == 2

MaxInitContracts == 2

MaxInitAddresses == 2

MaxSuffix == 10

MaxVersionLen == 3

-----------------------------------------------------------------------------
(* Optional values and strings *)

None == <<>>

Some(x) == <<x>>

Val(o) == o[1]

EmptyStr == <<>>

Digits == <<"0", "1", "2", "3", "4", "5", "6", "7", "8", "9">>

\* the line feed, which $ of a regular expression treats specially
Newline == "\n"

IsDigit(c) == \E i \in 1..10 : Digits[i] = c

DigitVal(c) == (CHOOSE i \in 1..10 : Digits[i] = c) - 1

RECURSIVE str(_)
str(n) == IF n < 10 THEN <<Digits[n + 1]>> ELSE str(n \div 10) \o <<Digits[(n % 10) + 1]>>

RECURSIVE int(_)
int(s) == IF Len(s) = 0 THEN 0 ELSE 10 * int(SubSeq(s, 1, Len(s) - 1)) + DigitVal(s[Len(s)])

UpperToLower == [A |-> "a", B |-> "b", C |-> "c", E |-> "e", R |-> "r", T |-> "t", U |-> "u"]

LowerChar(c) == IF c \in DOMAIN UpperToLower THEN UpperToLower[c] ELSE c

Lower_identity(s) == s

Lower(s) == [i \in 1..Len(s) |-> LowerChar(s[i])]

-----------------------------------------------------------------------------
(* The values the runs and the service draw from *)

Token == <<"T", "o", "k", "e", "n">>

token == <<"t", "o", "k", "e", "n">>

token2 == <<"t", "o", "k", "e", "n", "2">>

main_label == <<"m", "a", "i", "n">>

V1_0 == <<"1", ".", "0">>

V1_1 == <<"1", ".", "1">>

beta == <<"b", "e", "t", "a">>

Addr0xABC == <<"0", "x", "A", "B", "C">>

Addr0xDEF == <<"0", "x", "D", "E", "F">>

Addr0x123 == <<"0", "x", "1", "2", "3">>

Bin0xAA == <<"0", "x", "A", "A">>

Bin0xBB == <<"0", "x", "B", "B">>

Block7 == <<"7">>

Minus100 == <<"-", "1", "0", "0">>

STATUS_NOT_FOUND == 404

STATUS_CONFLICT == 409

STATUS_OTHER == 500

-----------------------------------------------------------------------------
(* State *)

VARIABLES
    contracts,        \* service: contract records, in creation order
    addresses,        \* service: address records
    links,            \* service: links written
    environ,          \* os.environ: the two policy flags
    runs,             \* number of runs started
    artifact,         \* input: None (no artifact file) or Some(binary code)
    contract_name,    \* input
    contract_address, \* input
    options,          \* input: main's options, after filter_empty_values
    pc,               \* position of the run
    contract_label,   \* locals of upload_and_link_contract
    contract_version,
    address_label,
    starting_block,
    mb_contract,
    mb_address,
    payload,          \* locals of create_contract
    cc_contract_version, \* create_contract's own contract_version
    ca_address_label, \* create_address's own address_label
    calls,            \* remote calls issued by the run, in order
    raised,           \* status of the exception that ended each phase
    faults,           \* remote failures injected into the run
    result,           \* how the run ended
    start,            \* the service's records when the run began
    prev,             \* what the previous run returned
    replies,          \* status of the reply to each of calls, in order
    arg,              \* argument of a function applied on its own
    ret               \* what that function returned

service == <<contracts, addresses, links>>

inputs == <<artifact, contract_name, contract_address, options>>

applied == <<arg, ret>>

fixed == <<environ, runs, artifact, contract_name, contract_address, options, start, prev, applied>>

locals == <<contract_label, contract_version, address_label, starting_block>>

vars == <<contracts, addresses, links, environ, runs, artifact, contract_name,
          contract_address, options, pc, contract_label, contract_version,
          address_label, starting_block, mb_contract, mb_address, payload,
          cc_contract_version, ca_address_label, calls, raised, faults, result,
          start, prev, replies, arg, ret>>

-----------------------------------------------------------------------------
(* The remote service behind mb_request.  A reply is a status and a result;  *)
(* status 200 returns the result (an Optional: a DELETE has none), any other *)
(* status raises MultiBaasAPIError.                                          *)
(* Each endpoint below gives the replies the service state determines.       *)

Reply(status, res) == [status |-> status, result |-> res]

Fault == Reply(STATUS_OTHER, None)

NotFound == Reply(STATUS_NOT_FOUND, None)

Call(method, resource, key, data) == [method |-> method, resource |-> resource, key |-> key, data |-> data]

ContractRecord(l, v, b, n) == [label |-> l, version |-> v, bin |-> b, contractName |-> n]

AddressRecord(a, l) == [address |-> a, label |-> l]

ContractsAt(l, v) == {i \in 1..Len(contracts) : contracts[i].label = l /\ contracts[i].version = v}

ContractsLabelled(l) == {i \in 1..Len(contracts) : contracts[i].label = l}

\* GET /contracts/{label}/{version}
GetContractVersion(l, v) ==
    IF ContractsAt(l, v) = {} THEN {NotFound}
    ELSE {Reply(200, Some(contracts[i])) : i \in ContractsAt(l, v)}

\* GET /contracts/{label}: the latest record of the label
GetContract(l) ==
    IF ContractsLabelled(l) = {} THEN {NotFound}
    ELSE LET last == CHOOSE i \in ContractsLabelled(l) : \A j \in ContractsLabelled(l) : j <= i
         IN  {Reply(200, Some(contracts[last]))}

\* DELETE /contracts/{label}/{version}
DeleteContract(l, v) ==
    IF ContractsAt(l, v) = {} THEN {NotFound} ELSE {Reply(200, None)}

ContractsAfterDelete(l, v) == SelectSeq(contracts, LAMBDA r : ~(r.label = l /\ r.version = v))

\* POST /contracts/{label}: the service accepts the record and returns it
PostContract(data) ==
    {Reply(200, Some(ContractRecord(data.label, data.version, data.bin, data.contractName)))}

ContractsAfterPost_not_stored(rec) == contracts

ContractsAfterPost(rec) == Append(contracts, rec)

\* the records an address-or-label path segment names
AddressesAt(key) == {r \in addresses : r.address = key \/ r.label = key}

\* GET /chains/ethereum/addresses/{address-or-label}
GetAddress(key) ==
    IF AddressesAt(key) = {} THEN {NotFound}
    ELSE {Reply(200, Some(r)) : r \in AddressesAt(key)}

IsSimilar(l, base) ==
    /\ Len(l) >= Len(base)
    /\ SubSeq(l, 1, Len(base)) = base
    /\ \A i \in (Len(base) + 1)..Len(l) : IsDigit(l[i])

\* GET /chains/ethereum/addresses/similarlabels/{label}
GetSimilarLabels(base) ==
    {Reply(200, Some({[label |-> r.label] : r \in {a \in addresses : IsSimilar(a.label, base)}}))}

\* DELETE /chains/ethereum/addresses/{label}
DeleteAddress(key) ==
    IF AddressesAt(key) = {} THEN {NotFound} ELSE {Reply(200, None)}

AddressesAfterDelete(key) == addresses \ AddressesAt(key)

\* POST /chains/ethereum/addresses: the service accepts the record and returns
\* it; a record of the same address that had no label yet is the one labelled
PostAddress(data) == {Reply(200, Some(AddressRecord(data.address, data.label)))}

AddressesAfterPost(rec) ==
    (addresses \ {r \in addresses : r.address = rec.address /\ r.label = EmptyStr}) \cup {rec}

\* POST /chains/ethereum/addresses/{label}/contracts: the link lands on the
\* address that holds the label
PostLink(key, data) ==
    IF AddressesAt(key) = {} THEN {NotFound}
    ELSE {Reply(200, Some([address |-> r.address, address_label |-> key, label |-> data.label,
                           version |-> data.version, startingBlock |-> data.startingBlock]))
            : r \in AddressesAt(key)}

-----------------------------------------------------------------------------
(* Pure helpers of the source *)

NoException == [type |-> "none", status_code |-> 0]

MultiBaasAPIError(status) == [type |-> "MultiBaasAPIError", status_code |-> status]

FileNotFoundError == [type |-> "FileNotFoundError", status_code |-> 0]

\* mb_request: the service's reply, or a failure with a non-404 status
mb_request(natural) == natural \cup {Fault}

Injected(r, natural) == IF r \in natural THEN 0 ELSE 1

filter_empty_values(opts) == [k \in {j \in DOMAIN opts : opts[j] # EmptyStr} |-> opts[k]]

\* dict.get(key, default)
Get(d, k, default) == IF k \in DOMAIN d THEN d[k] ELSE default

allow_update_default_true(name) ==
    Lower(Get(environ, name, <<"t", "r", "u", "e">>)) \in {<<"t", "r", "u", "e">>, <<"1">>}

\* os.getenv(name, "false").lower() in ["true", "1"]
allow_update(name) ==
    Lower(Get(environ, name, <<"f", "a", "l", "s", "e">>)) \in {<<"t", "r", "u", "e">>, <<"1">>}

allow_update_contract == allow_update("MULTIBAAS_ALLOW_UPDATE_CONTRACT")

allow_update_address == allow_update("MULTIBAAS_ALLOW_UPDATE_ADDRESS")

reraised_never(e) == FALSE

reraised_always(e) == TRUE

reraised_conflict_only(e) == e.status_code = STATUS_CONFLICT

\* except MultiBaasAPIError as e: if e.status_code != 404: raise
reraised(e) == e.status_code # STATUS_NOT_FOUND

same_bytecode_wrong_field(mb, pl) == mb.label = pl.bin

same_bytecode_of_label(mb, pl) == mb.label = pl.label

\* mb_contract["bin"] == payload["bin"]
same_bytecode(mb, pl) == mb.bin = pl.bin

has_address_never(found) == FALSE

\* if result.get("address", "") != "": the found record holds an address
has_address(found) == Get(found, "address", EmptyStr) # EmptyStr

label_conflict_gated(existing_label, wanted) ==
    existing_label # wanted /\ ~allow_update_address

\* create_address: existing_label != address_label
label_conflict(existing_label, wanted) == existing_label # wanted

\* where $ matches in v: at the end, or before a newline that ends v
MatchEnd(v) == IF Len(v) > 0 /\ v[Len(v)] = Newline THEN Len(v) - 1 ELSE Len(v)

\* the length of the match of \d+$ in v (0: no match)
TrailingDigits(v) ==
    CHOOSE k \in 0..MatchEnd(v) :
        /\ \A i \in (MatchEnd(v) - k + 1)..MatchEnd(v) : IsDigit(v[i])
        /\ k < MatchEnd(v) => ~IsDigit(v[MatchEnd(v) - k])

\* create_contract: the version after the found one; re.sub rewrites the
\* match and keeps what is before and after it
next_version(v) ==
    LET k == TrailingDigits(v)
        e == MatchEnd(v)
    IN  IF k > 0
        THEN SubSeq(v, 1, e - k) \o str(int(SubSeq(v, e - k + 1, e)) + 1) \o SubSeq(v, e + 1, Len(v))
        ELSE v \o <<"2">>

\* create_address: the while loop over the numeric suffix
RECURSIVE suffix_search(_, _, _)
suffix_search(l, similar_set, num) ==
    IF (l \o str(num)) \in similar_set THEN suffix_search(l, similar_set, num + 1) ELSE num

unique_label_always_two(l, similar_set) ==
    IF l \in similar_set THEN l \o <<"2">> ELSE l

unique_label(l, similar_set) ==
    IF l \in similar_set THEN l \o str(suffix_search(l, similar_set, 2)) ELSE l

-----------------------------------------------------------------------------
(* Initial states: any service state within the bounds, any environment,   *)
(* any command line.                                                       *)

InitContractRecords ==
    {ContractRecord(token, V1_0, Bin0xAA, Token), ContractRecord(token, V1_0, Bin0xBB, Token),
     ContractRecord(token, V1_1, Bin0xAA, Token), ContractRecord(token, beta, Bin0xBB, Token)}

InitContracts ==
    {s \in UNION {[1..n -> InitContractRecords] : n \in 0..MaxInitContracts} :
        \A i, j \in 1..Len(s) : (i # j) => (s[i].version # s[j].version)}

InitAddressRecords ==
    {AddressRecord(Addr0xABC, l) : l \in {token, token2, main_label, EmptyStr}}
        \cup {AddressRecord(Addr0xDEF, token), AddressRecord(Addr0xDEF, main_label),
              AddressRecord(Addr0x123, token2), AddressRecord(EmptyStr, main_label)}

InitAddresses ==
    {S \in SUBSET InitAddressRecords :
        /\ Cardinality(S) <= MaxInitAddresses
        /\ \A r, q \in S : (r # q) =>
              /\ (r.address = q.address) => (r.address = EmptyStr)
              /\ (r.label = q.label) => (r.label = EmptyStr)}

EnvChoices ==
    [MULTIBAAS_ALLOW_UPDATE_CONTRACT |-> {<<"T", "r", "u", "e">>},
     MULTIBAAS_ALLOW_UPDATE_ADDRESS |-> {<<"1">>}]

Environments ==
    UNION {{e \in [K -> UNION {EnvChoices[k] : k \in K}] : \A k \in K : e[k] \in EnvChoices[k]}
            : K \in SUBSET DOMAIN EnvChoices}

OptionChoices ==
    [contractVersion |-> {V1_0, EmptyStr},
     addressLabel |-> {main_label},
     startingBlock |-> {Block7}]

\* json.loads(options_str)
ParsedOptions ==
    UNION {{o \in [K -> UNION {OptionChoices[k] : k \in K}] : \A k \in K : o[k] \in OptionChoices[k]}
            : K \in SUBSET DOMAIN OptionChoices}

\* main: options = filter_empty_values(json.loads(options_str))
AllOptions == {filter_empty_values(o) : o \in ParsedOptions}

Artifacts == {None, Some(Bin0xAA)}

NoError == [contract |-> NoException, address |-> NoException, link |-> NoException]

NoPrev == [result |-> "none", mb_contract |-> None, mb_address |-> None]

Init ==
    /\ contracts \in InitContracts
    /\ addresses \in InitAddresses
    /\ links = {}
    /\ environ \in Environments
    /\ runs = 0
    /\ artifact \in Artifacts
    /\ contract_name = Token
    /\ contract_address = Addr0xABC
    /\ options \in AllOptions
    /\ pc = "main"
    /\ contract_label = EmptyStr
    /\ contract_version = None
    /\ address_label = EmptyStr
    /\ starting_block = EmptyStr
    /\ mb_contract = None
    /\ mb_address = None
    /\ payload = None
    /\ cc_contract_version = None
    /\ ca_address_label = EmptyStr
    /\ calls = <<>>
    /\ raised = NoError
    /\ faults = 0
    /\ result = "none"
    /\ start = [contracts |-> contracts, addresses |-> addresses, links |-> links]
    /\ prev = NoPrev
    /\ replies = <<>>
    /\ arg = None
    /\ ret = None

-----------------------------------------------------------------------------
(* How the two registrars hand over to upload_and_link_contract *)

\* create_contract returns None; upload_and_link_contract stops
ContractReturnsNone(exc) ==
    /\ mb_contract' = None
    /\ raised' = [raised EXCEPT !.contract = exc]
    /\ result' = "stopped_contract"
    /\ pc' = "done"

\* create_contract returns a record; upload_and_link_contract goes on
ContractReturns(rec) ==
    /\ mb_contract' = Some(rec)
    /\ raised' = raised
    /\ result' = result
    /\ pc' = "create_address"

\* create_address raises; nothing in upload_and_link_contract catches it
AddressRaises(exc) ==
    /\ mb_address' = None
    /\ raised' = [raised EXCEPT !.address = exc]
    /\ result' = "raised"
    /\ pc' = "done"

AddressReturnsNone_unchecked(exc) ==
    /\ mb_address' = None
    /\ raised' = [raised EXCEPT !.address = exc]
    /\ result' = result
    /\ pc' = "link"

\* create_address returns None; upload_and_link_contract stops
AddressReturnsNone(exc) ==
    /\ mb_address' = None
    /\ raised' = [raised EXCEPT !.address = exc]
    /\ result' = "stopped_address"
    /\ pc' = "done"

\* create_address returns a record; upload_and_link_contract goes on
AddressReturns(rec) ==
    /\ mb_address' = Some(rec)
    /\ raised' = raised
    /\ result' = result
    /\ pc' = "link"

\* link_contract_to_address returns; upload_and_link_contract reports success
LinkReturns ==
    /\ raised' = raised
    /\ result' = "linked"
    /\ pc' = "done"

LinkRaises_retry(exc) ==
    /\ raised' = [raised EXCEPT !.link = exc]
    /\ result' = result
    /\ pc' = "link"

LinkRaises_uncaught(exc) ==
    /\ raised' = [raised EXCEPT !.link = exc]
    /\ result' = "raised"
    /\ pc' = "done"

\* link_contract_to_address re-raises; upload_and_link_contract catches and reports
LinkRaises(exc) ==
    /\ raised' = [raised EXCEPT !.link = exc]
    /\ result' = "link_failed"
    /\ pc' = "done"

Issue(call, r, natural) ==
    /\ calls' = Append(calls, call)
    /\ replies' = Append(replies, r.status)
    /\ faults' = faults + Injected(r, natural)

-----------------------------------------------------------------------------
(* The run *)

\* main calls upload_and_link_contract, which derives its locals
upload_and_link_contract ==
    /\ \/ pc = "main"
       \/ pc = "done" /\ runs < MaxRuns
    /\ runs' = runs + 1
    /\ prev' = IF pc = "done"
               THEN [result |-> result, mb_contract |-> mb_contract, mb_address |-> mb_address]
               ELSE prev
    /\ LET cl == Get(options, "contractLabel", Lower(contract_name))
       IN  /\ contract_label' = cl
           /\ contract_version' = IF "contractVersion" \in DOMAIN options THEN Some(options["contractVersion"]) ELSE None
           /\ address_label' = Get(options, "addressLabel", cl)
           /\ starting_block' = Get(options, "startingBlock", Minus100)
    /\ mb_contract' = None
    /\ mb_address' = None
    /\ payload' = None
    /\ cc_contract_version' = None
    /\ ca_address_label' = EmptyStr
    /\ calls' = <<>>
    /\ replies' = <<>>
    /\ raised' = NoError
    /\ faults' = 0
    /\ result' = "running"
    /\ start' = [contracts |-> contracts, addresses |-> addresses, links |-> links]
    /\ pc' = "create_contract"
    /\ UNCHANGED <<service, environ, inputs, applied>>

\* create_contract: load the artifact and prepare the payload
create_contract_load ==
    /\ pc = "create_contract"
    /\ IF artifact = None
       THEN /\ ContractReturnsNone(FileNotFoundError)
            /\ UNCHANGED <<payload, cc_contract_version>>
       ELSE /\ payload' = Some([label |-> contract_label, bin |-> Val(artifact), contractName |-> contract_name])
            /\ cc_contract_version' = contract_version
            /\ pc' = IF contract_version # None THEN "get_contract_version" ELSE "get_contract"
            /\ UNCHANGED <<mb_contract, raised, result>>
    /\ UNCHANGED <<service, fixed, locals, mb_address, ca_address_label, calls, replies, faults>>

\* create_contract: check if the exact contract version exists
create_contract_get_version ==
    /\ pc = "get_contract_version"
    /\ LET natural == GetContractVersion(contract_label, Val(cc_contract_version))
           except(e) == IF reraised(e)
                        THEN ContractReturnsNone(e)
                        ELSE /\ pc' = "post_contract"
                             /\ UNCHANGED <<mb_contract, raised, result>>
       IN  \E r \in mb_request(natural) :
            /\ Issue(Call("GET", "contract", <<contract_label, Val(cc_contract_version)>>, None), r, natural)
            /\ IF r.status = 200
               THEN IF same_bytecode(Val(r.result), Val(payload))
                    THEN ContractReturns(Val(r.result))
                    ELSE IF ~allow_update_contract
                         THEN except(MultiBaasAPIError(STATUS_CONFLICT))
                         ELSE /\ pc' = "delete_contract"
                              /\ UNCHANGED <<mb_contract, raised, result>>
               ELSE except(MultiBaasAPIError(r.status))
    /\ UNCHANGED <<service, fixed, locals, mb_address, payload, cc_contract_version, ca_address_label>>

\* create_contract: delete the old contract if updates are allowed
create_contract_delete ==
    /\ pc = "delete_contract"
    /\ LET natural == DeleteContract(contract_label, Val(cc_contract_version))
           except(e) == IF reraised(e)
                        THEN ContractReturnsNone(e)
                        ELSE /\ pc' = "post_contract"
                             /\ UNCHANGED <<mb_contract, raised, result>>
       IN  \E r \in mb_request(natural) :
            /\ Issue(Call("DELETE", "contract", <<contract_label, Val(cc_contract_version)>>, None), r, natural)
            /\ IF r.status = 200
               THEN /\ contracts' = ContractsAfterDelete(contract_label, Val(cc_contract_version))
                    /\ pc' = "post_contract"
                    /\ UNCHANGED <<mb_contract, raised, result>>
               ELSE /\ except(MultiBaasAPIError(r.status))
                    /\ UNCHANGED contracts
    /\ UNCHANGED <<addresses, links, fixed, locals, mb_address, payload, cc_contract_version, ca_address_label>>

\* create_contract: no version given, look at the record of the label
create_contract_get ==
    /\ pc = "get_contract"
    /\ LET natural == GetContract(contract_label)
           except(e) == IF reraised(e)
                        THEN /\ ContractReturnsNone(e)
                             /\ UNCHANGED cc_contract_version
                        ELSE /\ cc_contract_version' = Some(V1_0)
                             /\ pc' = "post_contract"
                             /\ UNCHANGED <<mb_contract, raised, result>>
       IN  \E r \in mb_request(natural) :
            /\ Issue(Call("GET", "contract", <<contract_label>>, None), r, natural)
            /\ IF r.status = 200
               THEN IF same_bytecode(Val(r.result), Val(payload))
                    THEN /\ ContractReturns(Val(r.result))
                         /\ UNCHANGED cc_contract_version
                    ELSE /\ cc_contract_version' = Some(next_version(Val(r.result).version))
                         /\ pc' = "post_contract"
                         /\ UNCHANGED <<mb_contract, raised, result>>
               ELSE except(MultiBaasAPIError(r.status))
    /\ UNCHANGED <<service, fixed, locals, mb_address, payload, ca_address_label>>

\* create_contract: add the finalized version to the payload and create
create_contract_post ==
    /\ pc = "post_contract"
    /\ LET data == [label |-> Val(payload).label, bin |-> Val(payload).bin,
                    contractName |-> Val(payload).contractName, version |-> Val(cc_contract_version)]
           natural == PostContract(data)
       IN  /\ payload' = Some(data)
           /\ \E r \in mb_request(natural) :
                /\ Issue(Call("POST", "contract", <<contract_label>>, data), r, natural)
                /\ IF r.status = 200
                   THEN /\ contracts' = ContractsAfterPost(Val(r.result))
                        /\ ContractReturns(Val(r.result))
                   ELSE /\ ContractReturnsNone(MultiBaasAPIError(r.status))
                        /\ UNCHANGED contracts
    /\ UNCHANGED <<addresses, links, fixed, locals, mb_address, cc_contract_version, ca_address_label>>

\* create_address: check if the address already exists
create_address_get ==
    /\ pc = "create_address"
    /\ ca_address_label' = address_label
    /\ LET natural == GetAddress(contract_address)
           proceed == /\ pc' = IF address_label = contract_label THEN "get_similar" ELSE "get_label"
                      /\ UNCHANGED <<mb_address, raised, result>>
           except(e) == IF reraised(e) THEN AddressRaises(e) ELSE proceed
       IN  \E r \in mb_request(natural) :
            /\ Issue(Call("GET", "address", <<contract_address>>, None), r, natural)
            /\ IF r.status = 200
               THEN IF Val(r.result).label # EmptyStr
                    THEN IF label_conflict(Val(r.result).label, address_label)
                         THEN except(MultiBaasAPIError(STATUS_CONFLICT))
                         ELSE AddressReturns(Val(r.result))
                    ELSE proceed
               ELSE except(MultiBaasAPIError(r.status))
    /\ UNCHANGED <<service, fixed, locals, mb_contract, payload, cc_contract_version>>

\* create_address: the default label, made unique among the similar labels;
\* no handler surrounds this read
create_address_similar ==
    /\ pc = "get_similar"
    /\ LET natural == GetSimilarLabels(contract_label)
       IN  \E r \in mb_request(natural) \cup {NotFound} :
            /\ Issue(Call("GET", "similarlabels", <<contract_label>>, None), r, natural)
            /\ IF r.status = 200
               THEN LET similar_set == {label_info.label : label_info \in Val(r.result)}
                    IN  /\ ca_address_label' = unique_label(contract_label, similar_set)
                        /\ pc' = "post_address"
                        /\ UNCHANGED <<mb_address, raised, result>>
               ELSE /\ AddressRaises(MultiBaasAPIError(r.status))
                    /\ UNCHANGED ca_address_label
    /\ UNCHANGED <<service, fixed, locals, mb_contract, payload, cc_contract_version>>

\* create_address: a label of the caller's choice, check if it already exists
create_address_get_label ==
    /\ pc = "get_label"
    /\ LET natural == GetAddress(ca_address_label)
           except(e) == IF reraised(e)
                        THEN AddressRaises(e)
                        ELSE /\ pc' = "post_address"
                             /\ UNCHANGED <<mb_address, raised, result>>
       IN  \E r \in mb_request(natural) :
            /\ Issue(Call("GET", "address", <<ca_address_label>>, None), r, natural)
            /\ IF r.status = 200
               THEN IF ~allow_update_address
                    THEN except(MultiBaasAPIError(STATUS_CONFLICT))
                    ELSE /\ pc' = IF has_address(Val(r.result)) THEN "delete_address" ELSE "post_address"
                         /\ UNCHANGED <<mb_address, raised, result>>
               ELSE except(MultiBaasAPIError(r.status))
    /\ UNCHANGED <<service, fixed, locals, mb_contract, payload, cc_contract_version, ca_address_label>>

\* create_address: delete the conflicting address
create_address_delete ==
    /\ pc = "delete_address"
    /\ LET natural == DeleteAddress(ca_address_label)
           except(e) == IF reraised(e)
                        THEN AddressRaises(e)
                        ELSE /\ pc' = "post_address"
                             /\ UNCHANGED <<mb_address, raised, result>>
       IN  \E r \in mb_request(natural) :
            /\ Issue(Call("DELETE", "address", <<ca_address_label>>, None), r, natural)
            /\ IF r.status = 200
               THEN /\ addresses' = AddressesAfterDelete(ca_address_label)
                    /\ pc' = "post_address"
                    /\ UNCHANGED <<mb_address, raised, result>>
               ELSE /\ except(MultiBaasAPIError(r.status))
                    /\ UNCHANGED addresses
    /\ UNCHANGED <<contracts, links, fixed, locals, mb_contract, payload, cc_contract_version, ca_address_label>>

\* create_address: create the new address
create_address_post ==
    /\ pc = "post_address"
    /\ LET data == [address |-> contract_address, label |-> ca_address_label]
           natural == PostAddress(data)
       IN  \E r \in mb_request(natural) :
            /\ Issue(Call("POST", "address", <<>>, data), r, natural)
            /\ IF r.status = 200
               THEN /\ addresses' = AddressesAfterPost(Val(r.result))
                    /\ AddressReturns(Val(r.result))
               ELSE /\ AddressReturnsNone(MultiBaasAPIError(r.status))
                    /\ UNCHANGED addresses
    /\ UNCHANGED <<contracts, links, fixed, locals, mb_contract, payload, cc_contract_version, ca_address_label>>

\* upload_and_link_contract calls link_contract_to_address
link_contract_to_address ==
    /\ pc = "link"
    /\ LET data == [label |-> contract_label, version |-> Val(mb_contract).version,
                    startingBlock |-> starting_block]
           natural == PostLink(address_label, data)
       IN  \E r \in mb_request(natural) :
            /\ Issue(Call("POST", "link", <<address_label>>, data), r, natural)
            /\ IF r.status = 200
               THEN /\ links' = links \cup {Val(r.result)}
                    /\ LinkReturns
               ELSE /\ links' = links
                    /\ LinkRaises(MultiBaasAPIError(r.status))
    /\ UNCHANGED <<contracts, addresses, fixed, locals, mb_contract, mb_address, payload,
                   cc_contract_version, ca_address_label>>

Next ==
    \/ upload_and_link_contract
    \/ create_contract_load
    \/ create_contract_get_version
    \/ create_contract_delete
    \/ create_contract_get
    \/ create_contract_post
    \/ create_address_get
    \/ create_address_similar
    \/ create_address_get_label
    \/ create_address_delete
    \/ create_address_post
    \/ link_contract_to_address

Spec == Init /\ [][Next]_vars

\* the program is sequential: a run that can take its next step takes it
FairSpec == Spec /\ WF_vars(Next)

-----------------------------------------------------------------------------
(* The two pure computations of the registrars, applied on their own to     *)
(* arguments drawn from bounded sets; no run is in progress.                 *)

run_state == <<contracts, addresses, links, environ, runs, artifact, contract_name,
               contract_address, options, pc, contract_label, contract_version,
               address_label, starting_block, mb_contract, mb_address, payload,
               cc_contract_version, ca_address_label, calls, raised, faults, result,
               start, prev, replies>>

NoRun ==
    /\ contracts = <<>>
    /\ addresses = {}
    /\ links = {}
    /\ environ = <<>>
    /\ runs = 0
    /\ artifact = None
    /\ contract_name = Token
    /\ contract_address = Addr0xABC
    /\ options = <<>>
    /\ pc = "main"
    /\ contract_label = EmptyStr
    /\ contract_version = None
    /\ address_label = EmptyStr
    /\ starting_block = EmptyStr
    /\ mb_contract = None
    /\ mb_address = None
    /\ payload = None
    /\ cc_contract_version = None
    /\ ca_address_label = EmptyStr
    /\ calls = <<>>
    /\ raised = NoError
    /\ faults = 0
    /\ result = "none"
    /\ start = [contracts |-> contracts, addresses |-> addresses, links |-> links]
    /\ prev = NoPrev
    /\ replies = <<>>

\* create_address: contract labels and the labels the service reports as similar
LabelX == <<"x">>

SimilarLabels == {LabelX, token} \cup {LabelX \o str(n) : n \in 1..MaxSuffix}

LabelArgs == [contract_label : {LabelX, token}, similar_set : SUBSET SimilarLabels]

InitLabel ==
    /\ NoRun
    /\ arg \in {Some(a) : a \in LabelArgs}
    /\ ret = None

\* create_address: the label chosen when address_label == contract_label
create_address_unique_label ==
    /\ ret = None
    /\ ret' = Some(unique_label(Val(arg).contract_label, Val(arg).similar_set))
    /\ UNCHANGED <<run_state, arg>>

NextLabel == create_address_unique_label

SpecLabel == InitLabel /\ [][NextLabel]_vars

\* create_contract: the characters of the versions the service may hold
VersionChars == {"0", "1", "9", ".", "v", Newline}

VersionExamples == {V1_0, beta, <<"1", ".", "1", "0">>, <<"1", ".", "0", "9">>}

Versions ==
    UNION {[1..n -> VersionChars] : n \in 0..MaxVersionLen} \cup VersionExamples

InitVersion ==
    /\ NoRun
    /\ arg \in {Some(v) : v \in Versions}
    /\ ret = None

\* create_contract: the version chosen when the latest record differs
create_contract_next_version ==
    /\ ret = None
    /\ ret' = Some(next_version(Val(arg)))
    /\ UNCHANGED <<run_state, arg>>

NextVersion == create_contract_next_version

SpecVersion == InitVersion /\ [][NextVersion]_vars

-----------------------------------------------------------------------------
(* What the claims speak of *)

Issued(method, resource) ==
    \E i \in 1..Len(calls) : calls[i].method = method /\ calls[i].resource = resource

Writes == SelectSeq(calls, LAMBDA c : c.method # "GET")

ContractWrites == SelectSeq(calls, LAMBDA c : c.method # "GET" /\ c.resource = "contract")

AddressWrites == SelectSeq(calls, LAMBDA c : c.method # "GET" /\ c.resource = "address")

AddressPhaseCalls == SelectSeq(calls, LAMBDA c : c.resource \in {"address", "similarlabels"})

LinkWrites == SelectSeq(calls, LAMBDA c : c.resource = "link")

\* create_contract has just returned to upload_and_link_contract
ContractPhaseEnd == pc = "create_address" \/ (pc = "done" /\ result = "stopped_contract")

\* create_address has just returned to upload_and_link_contract, or raised
AddressPhaseEnd == pc = "link" \/ (pc = "done" /\ result \in {"stopped_address", "raised"})

\* the record the service held at (label, version) when the run began
StartContractsAt(l, v) ==
    {start.contracts[i] : i \in {j \in 1..Len(start.contracts) :
        start.contracts[j].label = l /\ start.contracts[j].version = v}}

StartContractsLabelled(l) ==
    {start.contracts[i] : i \in {j \in 1..Len(start.contracts) : start.contracts[j].label = l}}

StartAddressOf(a) == {r \in start.addresses : r.address = a}

-----------------------------------------------------------------------------
\* C1: a run that repeats a fully successful run, with the same artifact,
\* address and options and no remote failure, issues no contract or address
\* create or delete and reaches the link step.
C1_RerunIsIdempotent ==
    (pc = "done" /\ prev.result = "linked" /\ faults = 0) =>
        /\ Len(ContractWrites) = 0
        /\ Len(AddressWrites) = 0
        /\ Issued("POST", "link")

\* C2: create_contract called a second time with the same binary code, label
\* and version, no remote call failing, returns the record the first call
\* returned and issues no POST and no DELETE.
C2_CreateContractTwice ==
    (ContractPhaseEnd /\ prev.mb_contract # None /\ faults = 0) =>
        /\ mb_contract = prev.mb_contract
        /\ Len(ContractWrites) = 0

C2_Witness ==
    /\ ContractPhaseEnd
    /\ prev.mb_contract # None
    /\ faults = 0
    /\ contract_version # None
    /\ mb_contract = prev.mb_contract
    /\ calls = <<Call("GET", "contract", <<contract_label, Val(contract_version)>>, None)>>

\* C3: with an explicit version, a record at (label, version) whose binary
\* code differs from the artifact's, the replace policy disabled and no remote
\* failure, create_contract fails with status 409, issues no DELETE and no
\* POST, and the contract records stay as they were.
C3_Case ==
    /\ pc # "main"
    /\ artifact # None
    /\ contract_version # None
    /\ \E c \in StartContractsAt(contract_label, Val(contract_version)) : c.bin # Val(artifact)
    /\ ~allow_update_contract
    /\ faults = 0

C3_ConflictWithoutWrite ==
    C3_Case =>
        /\ Len(ContractWrites) = 0
        /\ contracts = start.contracts
        /\ pc \in {"create_contract", "get_contract_version", "done"}
        /\ (pc = "done") =>
              /\ raised.contract = MultiBaasAPIError(STATUS_CONFLICT)
              /\ mb_contract = None

C3_Witness ==
    /\ C3_Case
    /\ pc = "done"
    /\ Len(calls) = 1

\* C4: when the address is already registered with a non-empty label and the
\* read of it succeeds, create_address returns that record without a write if
\* the label is the requested one, and fails with status 409 without a write
\* otherwise, whatever the allow-update-address flag says.
C4_AddressReuseOrConflict ==
    AddressPhaseEnd =>
        \A r \in StartAddressOf(contract_address) :
            (r.label # EmptyStr /\ faults = 0) =>
                /\ Len(AddressWrites) = 0
                /\ addresses = start.addresses
                /\ (r.label = address_label) => (mb_address = Some(r) /\ raised.address = NoException)
                /\ (r.label # address_label) =>
                      (mb_address = None /\ raised.address = MultiBaasAPIError(STATUS_CONFLICT))

C4_Witness ==
    /\ AddressPhaseEnd
    /\ faults = 0
    /\ allow_update_address
    /\ \E r \in StartAddressOf(contract_address) : r.label # EmptyStr /\ r.label # address_label
    /\ raised.address = MultiBaasAPIError(STATUS_CONFLICT)

\* C5: with empty options, the contract name 'Token', no contract record
\* labelled 'token', no record of the address '0xABC' and no label similar to
\* 'token' in use, a run without remote failure issues exactly three writes:
\* the create of contract ('token', '1.0'), the create of address
\* ('token', '0xABC'), and the link of ('token', '1.0') onto the address label
\* 'token' with startingBlock '-100'.
C5_Case ==
    /\ pc = "done"
    /\ options = <<>>
    /\ contract_name = Token
    /\ contract_address = Addr0xABC
    /\ artifact # None
    /\ StartContractsLabelled(token) = {}
    /\ StartAddressOf(Addr0xABC) = {}
    /\ \A r \in start.addresses : ~IsSimilar(r.label, token)
    /\ faults = 0

C5_FreshDeployment ==
    C5_Case =>
        Writes = <<Call("POST", "contract", <<token>>,
                        [label |-> token, bin |-> Val(artifact), contractName |-> Token, version |-> V1_0]),
                   Call("POST", "address", <<>>, [address |-> Addr0xABC, label |-> token]),
                   Call("POST", "link", <<token>>,
                        [label |-> token, version |-> V1_0, startingBlock |-> Minus100])>>

C5_Witness ==
    /\ C5_Case
    /\ result = "linked"
    /\ Len(Writes) = 3

\* C6: as claimed: when the artifact's binary code differs from the record of
\* the label, no version is given and the replace policy is disabled,
\* create_contract fails with status 409 and no address or link call follows.
C6_NoVersionCase ==
    /\ pc = "done"
    /\ artifact # None
    /\ contract_version = None
    /\ StartContractsLabelled(contract_label) # {}
    /\ \A c \in StartContractsLabelled(contract_label) : c.bin # Val(artifact)
    /\ ~allow_update_contract
    /\ faults = 0

C6_NoVersionConflict ==
    C6_NoVersionCase =>
        /\ raised.contract = MultiBaasAPIError(STATUS_CONFLICT)
        /\ result = "stopped_contract"
        /\ Len(AddressPhaseCalls) = 0
        /\ Len(LinkWrites) = 0

\* C6, amended: when the changed artifact is redeployed at an explicitly given
\* version whose record holds other binary code, the replace policy is
\* disabled and no remote call fails, the run stops in create_contract with
\* status 409 and issues no address read, no address write and no link write.
C6_ExplicitVersionConflictStops ==
    (/\ runs > 0
     /\ artifact # None
     /\ contract_version # None
     /\ \E c \in StartContractsAt(contract_label, Val(contract_version)) : c.bin # Val(artifact)
     /\ ~allow_update_contract
     /\ faults = 0) =>
        /\ Len(AddressPhaseCalls) = 0
        /\ Len(LinkWrites) = 0
        /\ ~Issued("POST", "address")
        /\ (pc = "done") => (result = "stopped_contract" /\ raised.contract.status_code = STATUS_CONFLICT)

C6_Witness ==
    /\ result = "stopped_contract"
    /\ raised.contract = MultiBaasAPIError(STATUS_CONFLICT)
    /\ contract_version = Some(V1_0)
    /\ faults = 0
    /\ calls = <<Call("GET", "contract", <<token, V1_0>>, None)>>

\* C7: every link write targets the label of the record create_address
\* returned and carries the version of the record create_contract returned, so
\* no link lands on an address other than the one passed to the run.
C7_LinkOntoResolvedLabel ==
    /\ \A i \in 1..Len(calls) :
          (calls[i].resource = "link" /\ mb_address # None /\ mb_contract # None) =>
              /\ calls[i].key = <<Val(mb_address).label>>
              /\ calls[i].data.version = Val(mb_contract).version
    /\ \A l \in links : l.address = contract_address

\* C8: a link write is the last call of a run and is issued only when
\* create_contract and then create_address have each returned a record; a run
\* that stopped in a registrar has issued no link write.
C8_LinkOnlyAfterBothRecords ==
    /\ \A i \in 1..Len(calls) :
          (calls[i].resource = "link") =>
              /\ i = Len(calls)
              /\ mb_contract # None
              /\ mb_address # None
    /\ \A i, j \in 1..Len(calls) :
          (calls[i].resource = "contract" /\ calls[j].resource \in {"address", "similarlabels"}) => (i < j)
    /\ (result \in {"stopped_contract", "stopped_address", "raised"}) => (Len(LinkWrites) = 0)

C8_Witness ==
    /\ pc = "done"
    /\ Len(LinkWrites) = 1
    /\ Issued("POST", "contract")
    /\ Issued("POST", "address")
    /\ mb_contract # None
    /\ mb_address # None

\* C9: as claimed: a failed link write leaves upload_and_link_contract as an
\* exception.
C9_LinkFailureEscapes ==
    (pc = "done" /\ raised.link # NoException) => (result = "raised")

\* C9, amended: a failed link write is raised by link_contract_to_address and
\* caught in upload_and_link_contract, which reports it and returns normally;
\* no link is recorded.
C9_LinkFailureCaught ==
    (raised.link # NoException) =>
        /\ pc = "done"
        /\ result = "link_failed"
        /\ calls[Len(calls)].resource = "link"
        /\ links = start.links

C9_Witness ==
    /\ pc = "done"
    /\ raised.link = MultiBaasAPIError(STATUS_OTHER)
    /\ result = "link_failed"
    /\ links = start.links

\* C10: whenever create_contract or create_address fails, the run returns
\* normally in a stopped state; no exception leaves upload_and_link_contract.
C10_RegistrarFailuresCaught ==
    (pc = "done" /\ (raised.contract # NoException \/ raised.address # NoException)) =>
        result \in {"stopped_contract", "stopped_address"}

\* C11: the label create_address resolves for the default address label is not
\* among the similar labels; it is the contract label when that is unused, and
\* otherwise the contract label followed by the smallest n >= 2 whose label is
\* unused, found within as many steps as there are similar labels.
C11_ResolvedLabelUnused ==
    (ret # None) =>
        LET l == Val(arg).contract_label
            S == Val(arg).similar_set
            r == Val(ret)
        IN  /\ r \notin S
            /\ (l \notin S) => (r = l)
            /\ (l \in S) =>
                   \E n \in 2..(Cardinality(S) + 1) :
                       /\ r = l \o str(n)
                       /\ \A m \in 2..(n - 1) : (l \o str(m)) \in S

C11_Witness ==
    /\ arg = Some([contract_label |-> LabelX,
                    similar_set |-> {LabelX, LabelX \o <<"2">>, LabelX \o <<"3">>}])
    /\ ret = Some(LabelX \o <<"4">>)

\* the number of decimal digits v ends in
EndDigits(v) ==
    CHOOSE k \in 0..Len(v) :
        /\ \A i \in (Len(v) - k + 1)..Len(v) : IsDigit(v[i])
        /\ k < Len(v) => ~IsDigit(v[Len(v) - k])

\* C12: the successor of a version V is never V; when V ends in decimal digits
\* the successor keeps what precedes them and has their integer plus one in
\* their place, and otherwise it is V followed by '2'.
C12_VersionSuccession ==
    (ret # None) =>
        LET v == Val(arg)
            r == Val(ret)
            k == EndDigits(v)
        IN  /\ r # v
            /\ (k > 0) =>
                   /\ Len(r) >= Len(v) - k + 1
                   /\ SubSeq(r, 1, Len(v) - k) = SubSeq(v, 1, Len(v) - k)
                   /\ \A i \in (Len(v) - k + 1)..Len(r) : IsDigit(r[i])
                   /\ int(SubSeq(r, Len(v) - k + 1, Len(r)))
                          = int(SubSeq(v, Len(v) - k + 1, Len(v))) + 1
            /\ (k = 0) => (r = v \o <<"2">>)
            /\ (v = V1_0) => (r = V1_1)
            /\ (v = <<"v", "9">>) => (r = <<"v", "1", "0">>)
            /\ (v = <<"1", ".", "9">>) => (r = <<"1", ".", "1", "0">>)
            /\ (v = beta) => (r = beta \o <<"2">>)

\* C12 for the versions that do not end in a line feed
C12_SuccessionWithoutNewline ==
    (ret # None /\ MatchEnd(Val(arg)) = Len(Val(arg))) => C12_VersionSuccession

\* the record GET /contracts/{label} found when the run began
StartLatest(l) ==
    start.contracts[CHOOSE i \in 1..Len(start.contracts) :
        /\ start.contracts[i].label = l
        /\ \A j \in (i + 1)..Len(start.contracts) : start.contracts[j].label # l]

\* the record create_contract posts under version v
Posted(v) ==
    [label |-> contract_label, bin |-> Val(artifact), contractName |-> contract_name, version |-> v]

C13_Case ==
    /\ ContractPhaseEnd
    /\ contract_version = None
    /\ artifact # None
    /\ faults = 0

\* C13: with no version given and no remote failure, create_contract creates
\* version '1.0' when the label has no record, returns the found record with
\* no write when its binary code is the artifact's, and otherwise creates one
\* record under the successor of the found version, the found record staying
\* and the replace policy playing no part.
C13_NoVersionOutcome ==
    C13_Case =>
        IF StartContractsLabelled(contract_label) = {}
        THEN /\ ContractWrites = <<Call("POST", "contract", <<contract_label>>, Posted(V1_0))>>
             /\ contracts = Append(start.contracts, Posted(V1_0))
             /\ mb_contract = Some(Posted(V1_0))
        ELSE IF StartLatest(contract_label).bin = Val(artifact)
        THEN /\ ContractWrites = <<>>
             /\ contracts = start.contracts
             /\ mb_contract = Some(StartLatest(contract_label))
        ELSE LET v == next_version(StartLatest(contract_label).version)
             IN  /\ ContractWrites = <<Call("POST", "contract", <<contract_label>>, Posted(v))>>
                 /\ contracts = Append(start.contracts, Posted(v))
                 /\ mb_contract = Some(Posted(v))

C13_Witness ==
    /\ C13_Case
    /\ ~allow_update_contract
    /\ StartContractsLabelled(contract_label) # {}
    /\ StartLatest(contract_label).bin # Val(artifact)
    /\ Len(ContractWrites) = 1
    /\ Len(contracts) = Len(start.contracts) + 1

\* C13: the two other cases happen
C13_WitnessFirst ==
    /\ C13_Case
    /\ StartContractsLabelled(contract_label) = {}
    /\ mb_contract = Some(Posted(V1_0))

C13_WitnessSame ==
    /\ C13_Case
    /\ StartContractsLabelled(contract_label) # {}
    /\ StartLatest(contract_label).bin = Val(artifact)
    /\ ContractWrites = <<>>

\* the i-th call of the run is a read that failed with a status other than 404
FailedRead(i) ==
    /\ calls[i].method = "GET"
    /\ replies[i] \notin {200, STATUS_NOT_FOUND}

\* C14: a read of a contract, of an address or of the similar labels that
\* fails with a status other than 404 is the last call of the run: the phase
\* ends at once and no create, delete or link write follows.
C14_FailedReadAborts ==
    \A i \in 1..Len(calls) :
        FailedRead(i) =>
            /\ i = Len(calls)
            /\ pc = "done"
            /\ result \in {"stopped_contract", "raised"}
            /\ (calls[i].resource = "contract") =>
                   (contracts = start.contracts /\ result = "stopped_contract")
            /\ addresses = start.addresses
            /\ links = start.links

\* the resources and keys of the failed read that ended the run
C14_Site(resource, keylen) ==
    /\ pc = "done"
    /\ Len(calls) > 0
    /\ FailedRead(Len(calls))
    /\ calls[Len(calls)].resource = resource
    /\ Len(calls[Len(calls)].key) = keylen

C14_Witness ==
    /\ C14_Site("similarlabels", 1)
    /\ Len(ContractWrites) = 1
    /\ Len(AddressWrites) = 0

C14_WitnessContractVersion == C14_Site("contract", 2)

C14_WitnessContract == C14_Site("contract", 1)

C14_WitnessAddress == C14_Site("address", 1) /\ calls[Len(calls)].key = <<contract_address>>

C14_WitnessAddressLabel == C14_Site("address", 1) /\ calls[Len(calls)].key # <<contract_address>>

\* the i-th call of the run is a read that the service answered with 404
NotFoundRead(i) ==
    /\ calls[i].method = "GET"
    /\ replies[i] = STATUS_NOT_FOUND

\* the 404 of the i-th call was caught where it was read
CaughtLocally(i) ==
    (i = Len(calls)) =>
        /\ pc # "done"
        /\ raised.contract = NoException
        /\ raised.address = NoException

\* C15: a 404 answer to any read of the two registrars, the read of the
\* similar labels included, is caught where it is read: it ends neither the
\* phase nor the run, which goes on towards the create.
C15_NotFoundCaught ==
    \A i \in 1..Len(calls) : NotFoundRead(i) => CaughtLocally(i)

\* C15 for the reads other than the read of the similar labels
C15_NotFoundCaughtElsewhere ==
    \A i \in 1..Len(calls) :
        (NotFoundRead(i) /\ calls[i].resource # "similarlabels") => CaughtLocally(i)

\* the environment sets the policy flag to a value that enables it
Enabled(name) ==
    /\ name \in DOMAIN environ
    /\ Lower(environ[name]) \in {<<"t", "r", "u", "e">>, <<"1">>}

ContractDelete(i) == calls[i].method = "DELETE" /\ calls[i].resource = "contract"

\* C16: a contract record is deleted only for a replace: a version was given,
\* the service held a record of other binary code at (label, version) and the
\* replace policy is enabled; a delete that succeeded is followed at once by
\* the create of the artifact's record at the same (label, version).
C16_DeleteOnlyToReplace ==
    \A i \in 1..Len(calls) :
        ContractDelete(i) =>
            /\ contract_version # None
            /\ calls[i].key = <<contract_label, Val(contract_version)>>
            /\ \E c \in StartContractsAt(contract_label, Val(contract_version)) :
                   c.bin # Val(artifact)
            /\ Enabled("MULTIBAAS_ALLOW_UPDATE_CONTRACT")
            /\ (replies[i] = 200) =>
                   IF i = Len(calls)
                   THEN pc = "post_contract"
                   ELSE calls[i + 1] = Call("POST", "contract", <<contract_label>>,
                                            Posted(Val(contract_version)))

C16_Witness ==
    /\ pc = "done"
    /\ \E i \in 1..(Len(calls) - 1) :
           /\ ContractDelete(i)
           /\ replies[i] = 200
           /\ calls[i + 1].method = "POST"
           /\ replies[i + 1] = 200
    /\ {contracts[j] : j \in ContractsAt(contract_label, Val(contract_version))}
           = {Posted(Val(contract_version))}

\* the records the service held under label l when the run began
StartAddressLabelled(l) == {r \in start.addresses : r.label = l}

\* the record create_address posts
PostedAddress == [address |-> contract_address, label |-> address_label]

C17_Case ==
    /\ AddressPhaseEnd
    /\ address_label # contract_label
    /\ StartAddressOf(contract_address) = {}
    /\ faults = 0

\* C17: for an address label chosen by the caller and an address with no
\* record, without remote failure: a record at the label with the update
\* policy off ends create_address with a 409 and no address write; with the
\* policy on and an address in the found record, the label is deleted and then
\* the address created; with no record at the label only the create is issued.
C17_ChosenLabel ==
    C17_Case =>
        IF StartAddressLabelled(address_label) = {}
        THEN AddressWrites = <<Call("POST", "address", <<>>, PostedAddress)>>
        ELSE IF ~allow_update_address
        THEN /\ raised.address = MultiBaasAPIError(STATUS_CONFLICT)
             /\ AddressWrites = <<>>
             /\ addresses = start.addresses
        ELSE (\A r \in StartAddressLabelled(address_label) : r.address # EmptyStr) =>
                 AddressWrites = <<Call("DELETE", "address", <<address_label>>, None),
                                   Call("POST", "address", <<>>, PostedAddress)>>

C17_Witness ==
    /\ C17_Case
    /\ allow_update_address
    /\ \E r \in StartAddressLabelled(address_label) : r.address # EmptyStr
    /\ Len(AddressWrites) = 2
    /\ addresses = {PostedAddress}

\* C17: the two other cases happen
C17_WitnessConflict ==
    /\ C17_Case
    /\ StartAddressLabelled(address_label) # {}
    /\ raised.address = MultiBaasAPIError(STATUS_CONFLICT)

C17_WitnessCreate ==
    /\ C17_Case
    /\ StartAddressLabelled(address_label) = {}
    /\ mb_address = Some(PostedAddress)

\* C18: create_contract issues a create only for a (label, version) the service
\* holds no record of, and the service never holds two records of one
\* (label, version).
C18_NoDuplicateVersion ==
    /\ (pc = "post_contract") =>
           (ContractsAt(contract_label, Val(cc_contract_version)) = {})
    /\ \A i, j \in 1..Len(contracts) :
           (contracts[i].label = contracts[j].label
               /\ contracts[i].version = contracts[j].version) => (i = j)

\* C18 for the runs that name their version
C18_NoDuplicateExplicitVersion ==
    (contract_version # None) => C18_NoDuplicateVersion

\* create_address is about to create a label that another address holds
CreatesHeldLabel ==
    /\ pc = "post_address"
    /\ \E r \in addresses : r.label = ca_address_label /\ r.address # contract_address

\* create_address is about to create an address that has a record
CreatesHeldAddress ==
    /\ pc = "post_address"
    /\ \E r \in addresses : r.address = contract_address

\* the service maps one label to two addresses
LabelOfTwoAddresses ==
    \E r, q \in addresses : r.label = q.label /\ r.label # EmptyStr /\ r.address # q.address

\* C19: create_address issues a create neither for a label that a record of
\* another address holds nor for an address that has a record, and the service
\* never maps one label to two addresses.
C19_NoSharedLabel ==
    /\ ~CreatesHeldLabel
    /\ ~CreatesHeldAddress
    /\ ~LabelOfTwoAddresses

\* C19 for the default address label and an address without a record
C19_NoSharedDefaultLabel ==
    (address_label = contract_label /\ StartAddressOf(contract_address) = {}) =>
        C19_NoSharedLabel

\* C19, its two parts apart: no create of a label another address holds, no
\* create of an address that has a record
C19_NoHeldLabelCreate == ~CreatesHeldLabel /\ ~LabelOfTwoAddresses

C19_NoHeldAddressCreate == ~CreatesHeldAddress

\* the i-th call of the run created a record of the resource
Created(i, resource) ==
    /\ calls[i].method = "POST"
    /\ calls[i].resource = resource
    /\ replies[i] = 200

\* no later call of the run deletes a record of the resource
NoDeleteAfter(i, resource) ==
    \A j \in (i + 1)..Len(calls) :
        ~(calls[j].method = "DELETE" /\ calls[j].resource = resource)

\* the run ended with a failure of create_address or of the link
C20_Case ==
    /\ pc = "done"
    /\ result \in {"raised", "stopped_address", "link_failed"}

\* C20: when create_address or the link fails, the contract record and the
\* address record the run created before are still in the service, and the
\* run has issued no delete of a contract or of an address after creating it.
C20_NoRollback ==
    C20_Case =>
        \A i \in 1..Len(calls) :
            /\ Created(i, "contract") =>
                   /\ \E k \in 1..Len(contracts) : contracts[k] = calls[i].data
                   /\ Len(contracts) > Len(start.contracts) \/ Issued("DELETE", "contract")
                   /\ NoDeleteAfter(i, "contract")
            /\ Created(i, "address") =>
                   /\ calls[i].data \in addresses
                   /\ NoDeleteAfter(i, "address")

C20_Witness ==
    /\ C20_Case
    /\ result = "link_failed"
    /\ \E i \in 1..Len(calls) : Created(i, "contract")
    /\ \E i \in 1..Len(calls) : Created(i, "address")
    /\ Len(contracts) = Len(start.contracts) + 1
    /\ mb_address # None /\ Val(mb_address) \in addresses

\* C20: create_address fails after the contract was created
C20_WitnessAddress ==
    /\ C20_Case
    /\ result \in {"raised", "stopped_address"}
    /\ \E i \in 1..Len(calls) : Created(i, "contract")
    /\ Len(contracts) = Len(start.contracts) + 1

\* how many calls of the run are the given write
Count(method, resource) ==
    Cardinality({i \in 1..Len(calls) :
        calls[i].method = method /\ calls[i].resource = resource})

\* the phase of upload_and_link_contract a call belongs to
Phase(call) ==
    IF call.resource = "contract" THEN 1
    ELSE IF call.resource = "link" THEN 3
    ELSE 2

\* C21: whatever the service holds and whichever remote calls fail, a run
\* issues each of contract create, contract delete, address create, address
\* delete and link write at most once, the calls of the contract phase before
\* those of the address phase before the link write, and at most 8 remote
\* calls in all; while it is not over, the run stands at its next step.
C21_WritesOnceInOrder ==
    /\ \A resource \in {"contract", "address", "link"} :
           /\ Count("POST", resource) <= 1
           /\ Count("DELETE", resource) <= 1
    /\ Count("DELETE", "link") = 0
    /\ \A i, j \in 1..Len(calls) : (i < j) => (Phase(calls[i]) <= Phase(calls[j]))
    /\ Len(calls) <= 8
    /\ Len(calls) <= 3 \/ pc \notin {"create_contract", "get_contract_version",
                                       "get_contract", "delete_contract", "post_contract"}
    /\ Len(calls) <= 7 \/ pc = "done"

C21_Witness ==
    /\ pc = "done"
    /\ Len(calls) = 8
    /\ faults = 0
    /\ Count("DELETE", "contract") = 1
    /\ Count("POST", "contract") = 1
    /\ Count("DELETE", "address") = 1
    /\ Count("POST", "address") = 1
    /\ Count("POST", "link") = 1

\* C21: a run with failing remote calls that still issues several writes
C21_WitnessFailure ==
    /\ pc = "done"
    /\ faults > 0
    /\ Len(Writes) >= 3

\* C21, termination: under FairSpec every run that has started comes to its end
C21_RunTerminates == (pc = "create_contract") ~> (pc = "done")

====
